---------------------------- MODULE Spec2Model ----------------------------
(*
  Model of the fan entity of govee2mqtt (src/hass_mqtt/fan.rs): the entity's
  state publication (Fan::notify_state), its configuration publication
  (Fan::publish_config) and the MQTT command handlers mqtt_fan_set_work_mode,
  mqtt_fan_set_speed and mqtt_fan_set_oscillation, acting on one device of
  the shared device registry (StateHandle).

  Spec      every handler runs to completion (one action per handler).
  SpecConc  two mqtt_fan_set_speed handlers run concurrently on the same
            device and interleave at their await points.
*)
EXTENDS Integers, Sequences, FiniteSets, TLC

VARIABLES
    device,       \* the registry's device: metadata and runtime state
    iot_client,   \* state.get_iot_client().is_some()
    fan,          \* the FanConfig computed by Fan::new
    last,         \* what the handler that returned last did
    quiet,        \* notify_state invocations since the last command or poll
    procs,        \* SpecConc: position of each concurrent set-speed handler
    completed,    \* SpecConc: handlers in the order their dispatch completed
    notifier      \* SpecConc: position of a concurrent notify_state

vars == <<device, iot_client, fan, last, quiet, procs, completed, notifier>>

-----------------------------------------------------------------------------
(* Option<T> and JSON values *)

None == <<>>
Some(x) == <<x>>
IsSome(o) == o # <<>>
Unwrap(o) == o[1]
UnwrapOr(o, d) == IF IsSome(o) THEN o[1] ELSE d

\* serde_json numbers keep their encoding: 2 and 2.0 are different values
JInt(n) == [k |-> "int", n |-> n]
JFloat(n) == [k |-> "float", n |-> n]
JStr == [k |-> "str", n |-> 0]
IsNumber(j) == j.k \in {"int", "float"}

\* JsonValue::as_i64: only an integer encoding yields a number
as_i64(j) == IF j.k = "int" THEN Some(j.n) ELSE None

\* `x as u8` on a 64-bit integer keeps the low 8 bits
as_u8(x) == x % 256

\* u8::to_string / i64::to_string
to_string(n) == ToString(n)

-----------------------------------------------------------------------------
(* Bounds of the model *)

\* notify_state invocations followed between two commands or polls
MaxNotify == 3

-----------------------------------------------------------------------------
(* Mode Table (ParsedWorkMode) *)

\* the "workMode" capability descriptors a device may advertise
TableAuto ==
    << [name |-> "sleep", value |-> JInt(1), default |-> 5],
       [name |-> "Auto",  value |-> JInt(2), default |-> 0] >>
TableNoAuto ==
    << [name |-> "sleep", value |-> JInt(1), default |-> 5],
       [name |-> "High",  value |-> JInt(3), default |-> 1] >>
WorkModeCaps == {None, Some(TableAuto), Some(TableNoAuto)}

\* ParsedWorkMode::with_device: Err when the device has no workMode capability
with_device(dev) == dev.work_mode

\* Iterator::find: the first element of seq whose index is in S, as an Option
First(seq, S) ==
    IF S = {} THEN None
    ELSE Some(seq[CHOOSE i \in S : \A j \in S : i <= j])

\* exact, case-sensitive match of the name
mode_by_name(table, name) ==
    First(table, {i \in DOMAIN table : table[i].name = name})

\* numbers compare by value across encodings, anything else exactly
LooseEq(a, b) ==
    IF IsNumber(a) /\ IsNumber(b) THEN a.n = b.n ELSE a = b

mode_for_value(table, j) ==
    First(table, {i \in DOMAIN table : LooseEq(table[i].value, j)})

get_mode_names(table) == [i \in 1..Len(table) |-> table[i].name]

default_value(mode) == mode.default

-----------------------------------------------------------------------------
(* Value Converter (TargetSpeed::from_percent) *)

SpeedCodeMin == 1
SpeedCodeMax == 8

\* 0 maps to the lowest native code, 100 (and above) to the highest
from_percent(p) ==
    LET q == IF p > 100 THEN 100 ELSE p
    IN SpeedCodeMin + ((SpeedCodeMax - SpeedCodeMin) * q + 50) \div 100

-----------------------------------------------------------------------------
(* The device: metadata and Device Runtime State *)

\* capabilities of the platform (HTTP) API descriptor
FanPercentCap ==
    [instance |-> "fan", kind |-> "Integer", min |-> 1, max |-> 100,
     unit |-> "unit.percent"]
PowerCap ==
    [instance |-> "powerSwitch", kind |-> "Enum", min |-> 0, max |-> 0,
     unit |-> ""]
OscillationCap ==
    [instance |-> "oscillationToggle", kind |-> "Enum", min |-> 0, max |-> 0,
     unit |-> ""]
HttpDeviceInfos ==
    {None, Some(<<PowerCap, OscillationCap>>), Some(<<PowerCap, FanPercentCap>>)}

capability_by_instance(info, instance) ==
    First(info, {i \in DOMAIN info : info[i].instance = instance})

\* state of the "workMode" capability in the raw capability-state blob
WorkModeStates ==
    { None,
      Some([value |-> [modeValue |-> JInt(1)]]),
      Some([value |-> [workMode |-> JFloat(1), modeValue |-> JInt(0)]]),
      Some([value |-> [workMode |-> JStr, modeValue |-> JInt(0)]]) }

get_state_capability_by_instance(dev, instance) ==
    IF instance = "workMode" THEN dev.work_mode_state ELSE None

\* serde_json pointer "/value/workMode" into the capability state
pointer_value_workMode(st) ==
    IF "value" \in DOMAIN st /\ "workMode" \in DOMAIN st.value
    THEN Some(st.value.workMode)
    ELSE None

DeviceStates == {None, Some([on |-> TRUE]), Some([on |-> FALSE])}

\* what one read of the device leaves in the registry
Readings ==
    { r \in [device_state : DeviceStates, work_mode_state : WorkModeStates] :
        \/ r.device_state = None /\ r.work_mode_state = None
        \/ /\ r.device_state = Some([on |-> TRUE])
           /\ r.work_mode_state # None
           /\ "workMode" \in DOMAIN Unwrap(r.work_mode_state).value
              => IsNumber(Unwrap(r.work_mode_state).value.workMode)
        \/ /\ r.device_state = Some([on |-> FALSE])
           /\ r.work_mode_state # None
           /\ "workMode" \in DOMAIN Unwrap(r.work_mode_state).value
           /\ ~IsNumber(Unwrap(r.work_mode_state).value.workMode) }

\* the id the registry knows, and one it does not
DeviceId == "H7160"
Ids == {DeviceId, "unknown"}

\* a device as the registry holds it when the entity is constructed: nothing
\* observed yet; a device pollable via IoT supports the IoT API
Devices ==
    { d \in [ pollable_via_iot  : BOOLEAN,
              iot_api_supported : BOOLEAN,
              http_device_info  : HttpDeviceInfos,
              work_mode         : WorkModeCaps,
              device_state      : {None},
              target_speed      : {None},
              fan_work_mode     : {None},
              work_mode_state   : {None} ] :
        d.pollable_via_iot => d.iot_api_supported }

\* device_mut(sku, id).set_target_speed(v)
set_target_speed(dev, v) == [dev EXCEPT !.target_speed = Some(v)]

device_state(dev) == dev.device_state

-----------------------------------------------------------------------------
(* Fan::new: the entity configuration, computed once *)

Fan_new(dev, iot) ==
    LET use_iot == dev.iot_api_supported /\ iot
        work_mode == with_device(dev)
        cap == IF IsSome(dev.http_device_info)
               THEN capability_by_instance(Unwrap(dev.http_device_info), "fan")
               ELSE None
        percent == IsSome(cap) /\ Unwrap(cap).kind = "Integer"
                   /\ Unwrap(cap).unit = "unit.percent"
    IN [ optimistic |-> ~use_iot,
         preset_modes |-> IF IsSome(work_mode)
                          THEN get_mode_names(Unwrap(work_mode)) ELSE <<>>,
         speed_range_min |-> IF percent THEN Some(as_u8(Unwrap(cap).min))
                             ELSE None,
         speed_range_max |-> IF percent THEN Some(as_u8(Unwrap(cap).max))
                             ELSE None,
         state_topic |-> "state",
         percentage_state_topic |-> "notify-speed",
         preset_mode_state_topic |-> "notify-mode" ]

-----------------------------------------------------------------------------
(* Fan::notify_state *)

\* client.publish(topic, payload).await?: the MQTT client is an external
\* collaborator; the publication is recorded and taken to succeed
publish(topic, payload) == [topic |-> topic, payload |-> payload]

\* notify_on_off reporting a device without state as running
notify_on_off_default_on(dev, f) ==
    IF IsSome(device_state(dev))
    THEN publish(f.state_topic,
                 IF Unwrap(device_state(dev)).on THEN "ON" ELSE "OFF")
    ELSE publish(f.state_topic, "ON")

\* lines 195-208: the on/off state
notify_on_off(dev, f) ==
    IF IsSome(device_state(dev))
    THEN publish(f.state_topic,
                 IF Unwrap(device_state(dev)).on THEN "ON" ELSE "OFF")
    ELSE publish(f.state_topic, "OFF")

\* notify_speed guessing on every invocation, cached value or not
notify_speed_reguess(dev, f) ==
    LET guessed_value == UnwrapOr(f.speed_range_min, 0)
    IN [ write |-> Some(guessed_value),
         pub |-> publish(f.percentage_state_topic, to_string(guessed_value)) ]

\* lines 210-233: the cached target speed, or a guess that is latched
notify_speed(dev, f) ==
    IF IsSome(dev.target_speed)
    THEN [ write |-> None,
           pub |-> publish(f.percentage_state_topic,
                           to_string(Unwrap(dev.target_speed))) ]
    ELSE LET guessed_value == UnwrapOr(f.speed_range_min, 0)
         IN [ write |-> Some(guessed_value),
              pub |-> publish(f.percentage_state_topic,
                              to_string(guessed_value)) ]

\* notify_mode trying the raw blob also when the cached value does not decode
notify_mode_fallthrough(dev, f) ==
    LET work_modes == with_device(dev)
        cached == IF IsSome(dev.fan_work_mode) /\ IsSome(work_modes)
                  THEN mode_for_value(Unwrap(work_modes),
                                      JInt(Unwrap(dev.fan_work_mode)))
                  ELSE None
        cap == get_state_capability_by_instance(dev, "workMode")
        mode_num == IF IsSome(cap)
                    THEN pointer_value_workMode(Unwrap(cap)) ELSE None
        raw == IF IsSome(mode_num) /\ IsSome(work_modes)
               THEN mode_for_value(Unwrap(work_modes), Unwrap(mode_num))
               ELSE None
        mode == IF IsSome(cached) THEN cached ELSE raw
    IN [ result |-> IF IsSome(work_modes) \/ IsSome(dev.fan_work_mode)
                    THEN "Ok" ELSE "NoWorkModeCapability",
         pubs |-> IF IsSome(mode)
                  THEN <<publish(f.preset_mode_state_topic, Unwrap(mode).name)>>
                  ELSE <<>> ]

\* lines 235-257: the mode, from the cached native value or else the raw blob
notify_mode(dev, f) ==
    LET work_modes == with_device(dev) IN
    IF IsSome(dev.fan_work_mode)
    THEN LET mode == IF IsSome(work_modes)
                     THEN mode_for_value(Unwrap(work_modes),
                                         JInt(Unwrap(dev.fan_work_mode)))
                     ELSE None
         IN [ result |-> "Ok",
              pubs |-> IF IsSome(mode)
                       THEN <<publish(f.preset_mode_state_topic,
                                      Unwrap(mode).name)>>
                       ELSE <<>> ]
    ELSE IF ~IsSome(work_modes)
    THEN [result |-> "NoWorkModeCapability", pubs |-> <<>>]
    ELSE LET cap == get_state_capability_by_instance(dev, "workMode")
             mode_num == IF IsSome(cap)
                         THEN pointer_value_workMode(Unwrap(cap)) ELSE None
             mode == IF IsSome(mode_num)
                     THEN mode_for_value(Unwrap(work_modes), Unwrap(mode_num))
                     ELSE None
         IN [ result |-> "Ok",
              pubs |-> IF IsSome(mode)
                       THEN <<publish(f.preset_mode_state_topic,
                                      Unwrap(mode).name)>>
                       ELSE <<>> ]

\* the whole handler: what it publishes, writes and returns
notify_state(dev, f) ==
    LET speed == notify_speed(dev, f)
        mode == notify_mode(dev, f)
    IN [ result |-> mode.result,
         pubs |-> <<notify_on_off(dev, f), speed.pub>> \o mode.pubs,
         dispatches |-> <<>>,
         write |-> speed.write ]

-----------------------------------------------------------------------------
(* Transport dispatches *)

\* state.device_control(device, cap, percent): the direct percent write;
\* ack is the transport's answer
device_control(cap, percent, ack) ==
    [via |-> "device_control", instance |-> cap.instance, mode |-> 0,
     value |-> percent, ack |-> ack]

\* state.fan_set_parameter(device, mode_num, value): the mode-parameter dispatch
fan_set_parameter(mode_num, value, ack) ==
    [via |-> "fan_set_parameter", instance |-> "workMode", mode |-> mode_num,
     value |-> value, ack |-> ack]

Fail(error) == [result |-> error, pubs |-> <<>>, dispatches |-> <<>>,
                write |-> None]

\* `dispatch(..).await?` and what follows it: an error of the transport is
\* returned at once, the cache write (if any) comes after the acknowledgement
Dispatched(d, write) ==
    [ result |-> IF d.ack THEN "Ok" ELSE "ControlError",
      pubs |-> <<>>,
      dispatches |-> <<d>>,
      write |-> IF d.ack THEN write ELSE None ]

\* state.resolve_device_for_control(id)
resolve_device_for_control(id) == id = DeviceId

-----------------------------------------------------------------------------
(* mqtt_fan_set_work_mode *)

\* mqtt_fan_set_work_mode dispatching the table's first mode for an unknown name
mqtt_fan_set_work_mode_unchecked(dev, id, mode, ok) ==
    IF ~resolve_device_for_control(id) THEN Fail("NotFound") ELSE
    LET work_modes == with_device(dev) IN
    IF ~IsSome(work_modes) THEN Fail("NoWorkModeCapability") ELSE
    LET found == mode_by_name(Unwrap(work_modes), mode)
        work_mode == IF IsSome(found) THEN Unwrap(found)
                     ELSE Unwrap(work_modes)[1]
    IN Dispatched(fan_set_parameter(work_mode.value.n,
                                    default_value(work_mode), ok),
                  None)

mqtt_fan_set_work_mode(dev, id, mode, ok) ==
    IF ~resolve_device_for_control(id) THEN Fail("NotFound") ELSE
    LET work_modes == with_device(dev) IN
    IF ~IsSome(work_modes) THEN Fail("NoWorkModeCapability") ELSE
    LET work_mode == mode_by_name(Unwrap(work_modes), mode) IN
    IF ~IsSome(work_mode) THEN Fail("ModeNotFound") ELSE
    LET mode_num == as_i64(Unwrap(work_mode).value) IN
    IF ~IsSome(mode_num) THEN Fail("NotANumber") ELSE
    Dispatched(fan_set_parameter(Unwrap(mode_num),
                                 default_value(Unwrap(work_mode)), ok),
               None)

-----------------------------------------------------------------------------
(* mqtt_fan_set_speed *)

\* line 296
use_iot(dev, iot) == dev.pollable_via_iot /\ iot

\* direct_cap trusting the optimistic flag that Fan::new computed
direct_cap_remembered(dev, iot) ==
    IF fan.optimistic /\ IsSome(dev.http_device_info)
    THEN capability_by_instance(Unwrap(dev.http_device_info), "fan")
    ELSE None

\* direct_cap without the check of the IoT transport
direct_cap_ignore_iot(dev, iot) ==
    IF IsSome(dev.http_device_info)
    THEN capability_by_instance(Unwrap(dev.http_device_info), "fan")
    ELSE None

\* lines 298-300: the capability of the direct percent path, if it is taken
direct_cap(dev, iot) ==
    IF ~use_iot(dev, iot) /\ IsSome(dev.http_device_info)
    THEN capability_by_instance(Unwrap(dev.http_device_info), "fan")
    ELSE None

\* set_speed_direct stashing the value before the dispatch has returned
set_speed_direct_write_first(cap, percent, ok) ==
    [ result |-> IF ok THEN "Ok" ELSE "ControlError",
      pubs |-> <<>>,
      dispatches |-> <<device_control(cap, percent, ok)>>,
      write |-> Some(as_u8(percent)) ]

\* set_speed_direct without the optimistic cache write
set_speed_direct_no_write(cap, percent, ok) ==
    Dispatched(device_control(cap, percent, ok), None)

\* lines 301-320
set_speed_direct(cap, percent, ok) ==
    Dispatched(device_control(cap, percent, ok), Some(as_u8(percent)))

\* set_speed_auto stashing the percent like the direct path does
set_speed_auto_caches(dev, percent, ok) ==
    LET work_modes == with_device(dev) IN
    IF ~IsSome(work_modes) THEN Fail("NoWorkModeCapability") ELSE
    LET work_mode == mode_by_name(Unwrap(work_modes), "Auto") IN
    IF ~IsSome(work_mode) THEN Fail("ModeNotFound") ELSE
    Dispatched(fan_set_parameter(Unwrap(work_mode).value.n,
                                 from_percent(as_u8(percent)), ok),
               Some(as_u8(percent)))

\* lines 325-340
set_speed_auto(dev, percent, ok) ==
    LET work_modes == with_device(dev) IN
    IF ~IsSome(work_modes) THEN Fail("NoWorkModeCapability") ELSE
    LET work_mode == mode_by_name(Unwrap(work_modes), "Auto") IN
    IF ~IsSome(work_mode) THEN Fail("ModeNotFound") ELSE
    LET mode_num == as_i64(Unwrap(work_mode).value) IN
    IF ~IsSome(mode_num) THEN Fail("NotANumber") ELSE
    Dispatched(fan_set_parameter(Unwrap(mode_num),
                                 from_percent(as_u8(percent)), ok),
               None)

\* mqtt_fan_set_speed trying the Auto fallback after a failed direct dispatch
mqtt_fan_set_speed_retry(dev, iot, id, percent, ok) ==
    IF ~resolve_device_for_control(id) THEN Fail("NotFound") ELSE
    LET cap == direct_cap(dev, iot) IN
    IF ~IsSome(cap) THEN set_speed_auto(dev, percent, ok) ELSE
    LET first == set_speed_direct(Unwrap(cap), percent, ok)
        second == set_speed_auto(dev, percent, TRUE)
    IN IF first.result = "Ok" THEN first
       ELSE [second EXCEPT !.dispatches = first.dispatches \o @]

mqtt_fan_set_speed(dev, iot, id, percent, ok) ==
    IF ~resolve_device_for_control(id) THEN Fail("NotFound") ELSE
    LET cap == direct_cap(dev, iot) IN
    IF IsSome(cap) THEN set_speed_direct(Unwrap(cap), percent, ok)
    ELSE set_speed_auto(dev, percent, ok)

-----------------------------------------------------------------------------
(* mqtt_fan_set_oscillation *)

\* lines 343-356: the payload goes where fan_set_parameter takes the mode
\* number; `value` is bound nowhere in the handler, so any value may go out
mqtt_fan_set_oscillation(id, oscillate, value, ok) ==
    IF ~resolve_device_for_control(id) THEN Fail("NotFound") ELSE
    Dispatched(fan_set_parameter(oscillate, value, ok), None)

-----------------------------------------------------------------------------
(* Fan::publish_config *)

\* publish_config computing the document anew from the current state
publish_config_recompute(f) ==
    [ result |-> "Ok",
      pubs |-> <<publish("config", Fan_new(device, iot_client))>>,
      dispatches |-> <<>>,
      write |-> None ]

\* lines 177-186: publish_entity_config("fan", .., &self.fan)
publish_config(f) ==
    [ result |-> "Ok",
      pubs |-> <<publish("config", f)>>,
      dispatches |-> <<>>,
      write |-> None ]

-----------------------------------------------------------------------------
(* Inputs *)

\* set-speed payloads (i64): in range, above it, below it
Percents == {50, 100, 300, -1}
\* set-mode payloads
ModeNames == {"Auto", "sleep", "Sleep"}
\* values the polling path reads from the device
PollSpeeds == {30}
PollWorkModes == {2, 9}
\* what the unbound `value` of mqtt_fan_set_oscillation may hold
SubValues == {0, 1}

Handlers == {1, 2}

-----------------------------------------------------------------------------
(* State machine: handlers that run to completion *)

\* a notify_state that has not started: no snapshot, nothing written
NotifierIdle == [pc |-> "idle", device |-> None, write |-> None, found |-> None]

Idle == [ op |-> "none", id |-> DeviceId, arg |-> 0, result |-> "Ok",
          pubs |-> <<>>, dispatches |-> <<>>, write |-> None, pre |-> None ]

\* the record of a handler that returned outcome o
Returned(op, id, arg, o) ==
    [ op |-> op, id |-> id, arg |-> arg, result |-> o.result, pubs |-> o.pubs,
      dispatches |-> o.dispatches, write |-> o.write, pre |-> Some(device) ]

\* the registry after a handler that returned outcome o
Written(o) ==
    IF IsSome(o.write) THEN set_target_speed(device, Unwrap(o.write))
    ELSE device

Init ==
    /\ device \in Devices
    /\ iot_client \in BOOLEAN
    /\ fan = Fan_new(device, iot_client)
    /\ last = Idle
    /\ quiet = <<>>
    /\ procs = [h \in Handlers |-> [pc |-> "idle", percent |-> 0,
                                    result |-> "none"]]
    /\ completed = <<>>
    /\ notifier = NotifierIdle

NotifyState ==
    /\ Len(quiet) < MaxNotify
    /\ LET o == notify_state(device, fan) IN
        /\ device' = Written(o)
        /\ last' = Returned("notify_state", DeviceId, 0, o)
        /\ quiet' = Append(quiet, [ pre |-> device.target_speed,
                                    write |-> o.write,
                                    speed |-> o.pubs[2].payload ])
    /\ UNCHANGED <<iot_client, fan, procs, completed, notifier>>

SetWorkMode ==
    \E id \in Ids, mode \in ModeNames, ok \in BOOLEAN :
        LET o == mqtt_fan_set_work_mode(device, id, mode, ok) IN
        /\ device' = Written(o)
        /\ last' = Returned("set_work_mode", id, mode, o)
        /\ quiet' = <<>>
        /\ UNCHANGED <<iot_client, fan, procs, completed, notifier>>

SetSpeed ==
    \E id \in Ids, percent \in Percents, ok \in BOOLEAN :
        LET o == mqtt_fan_set_speed(device, iot_client, id, percent, ok) IN
        /\ device' = Written(o)
        /\ last' = Returned("set_speed", id, percent, o)
        /\ quiet' = <<>>
        /\ UNCHANGED <<iot_client, fan, procs, completed, notifier>>

SetOscillation ==
    \E id \in Ids, oscillate \in BOOLEAN, value \in SubValues, ok \in BOOLEAN :
        LET o == mqtt_fan_set_oscillation(id, oscillate, value, ok) IN
        /\ device' = Written(o)
        /\ last' = Returned("set_oscillation", id, oscillate, o)
        /\ quiet' = <<>>
        /\ UNCHANGED <<iot_client, fan, procs, completed, notifier>>

PublishConfig ==
    LET o == publish_config(fan) IN
    /\ device' = Written(o)
    /\ last' = Returned("publish_config", DeviceId, 0, o)
    /\ UNCHANGED <<iot_client, fan, quiet, procs, completed, notifier>>

\* the external polling path: authoritative writes to the runtime state
PollState ==
    \E r \in Readings :
        /\ device' = [device EXCEPT !.device_state = r.device_state,
                                    !.work_mode_state = r.work_mode_state]
        /\ last' = Idle
        /\ quiet' = <<>>
        /\ UNCHANGED <<iot_client, fan, procs, completed, notifier>>

PollSpeed ==
    \E v \in PollSpeeds :
        /\ device' = set_target_speed(device, v)
        /\ last' = Idle
        /\ quiet' = <<>>
        /\ UNCHANGED <<iot_client, fan, procs, completed, notifier>>

PollWorkMode ==
    \E v \in PollWorkModes :
        /\ device' = [device EXCEPT !.fan_work_mode = Some(v)]
        /\ last' = Idle
        /\ quiet' = <<>>
        /\ UNCHANGED <<iot_client, fan, procs, completed, notifier>>

\* the IoT client connects or disconnects
IotConnect ==
    /\ ~iot_client
    /\ iot_client' = TRUE
    /\ last' = Idle
    /\ UNCHANGED <<device, fan, quiet, procs, completed, notifier>>

IotDisconnect ==
    /\ iot_client
    /\ iot_client' = FALSE
    /\ last' = Idle
    /\ UNCHANGED <<device, fan, quiet, procs, completed, notifier>>

Next ==
    \/ NotifyState
    \/ SetWorkMode
    \/ SetSpeed
    \/ SetOscillation
    \/ PublishConfig
    \/ PollState
    \/ PollSpeed
    \/ PollWorkMode
    \/ IotConnect
    \/ IotDisconnect

Spec == Init /\ [][Next]_vars

-----------------------------------------------------------------------------
(* State machine: two mqtt_fan_set_speed handlers interleaving at their
   await points (resolve_device_for_control / get_iot_client, the transport
   dispatch, device_mut) *)

At(h, pc, percent, result) ==
    [procs EXCEPT ![h] = [pc |-> pc, percent |-> percent, result |-> result]]

\* lines 294-300 and 325-335: resolve the device, choose the path
ConcStart(h) ==
    /\ procs[h].pc = "idle"
    /\ \E id \in Ids, percent \in Percents :
          IF ~resolve_device_for_control(id)
          THEN procs' = At(h, "done", percent, "NotFound")
          ELSE IF IsSome(direct_cap(device, iot_client))
          THEN procs' = At(h, "device_control", percent, "none")
          ELSE LET o == set_speed_auto(device, percent, TRUE) IN
               IF o.dispatches = <<>>
               THEN procs' = At(h, "done", percent, o.result)
               ELSE procs' = At(h, "fan_set_parameter", percent, "none")
    /\ UNCHANGED <<device, iot_client, fan, last, quiet, completed, notifier>>

\* line 301: device_control(..).await? returns
ConcControl(h) ==
    /\ procs[h].pc = "device_control"
    /\ \E ok \in BOOLEAN :
          LET cap == Unwrap(capability_by_instance(
                                Unwrap(device.http_device_info), "fan"))
              o == set_speed_direct(cap, procs[h].percent, ok)
          IN procs' = IF IsSome(o.write)
                      THEN At(h, "set_target_speed", procs[h].percent, "none")
                      ELSE At(h, "done", procs[h].percent, o.result)
    /\ completed' = Append(completed, h)
    /\ UNCHANGED <<device, iot_client, fan, last, quiet, notifier>>

\* lines 306-320: device_mut(..).await.set_target_speed(percent as u8)
ConcWrite(h) ==
    /\ procs[h].pc = "set_target_speed"
    /\ device' = set_target_speed(device, as_u8(procs[h].percent))
    /\ procs' = At(h, "done", procs[h].percent, "Ok")
    /\ UNCHANGED <<iot_client, fan, last, quiet, completed, notifier>>

\* lines 336-340: fan_set_parameter(..).await? returns
ConcParameter(h) ==
    /\ procs[h].pc = "fan_set_parameter"
    /\ \E ok \in BOOLEAN :
          procs' = At(h, "done", procs[h].percent,
                      set_speed_auto(device, procs[h].percent, ok).result)
    /\ UNCHANGED <<device, iot_client, fan, last, quiet, completed, notifier>>

\* lines 189-208: device_by_id(..).await hands notify_state its own copy of
\* the device; the on/off state is published from it
ConcNotifyRead ==
    /\ notifier.pc # "speed"
    /\ Len(quiet) < MaxNotify
    /\ notifier' = [NotifierIdle EXCEPT !.pc = "speed", !.device = Some(device)]
    /\ UNCHANGED <<device, iot_client, fan, last, quiet, procs, completed>>

\* lines 210-233: the speed is decided on the copy; the latch goes through
\* device_mut(..).await to the registry; found (and pre, in quiet) is what the
\* registry held then
ConcNotifySpeed ==
    /\ notifier.pc = "speed"
    /\ LET o == notify_speed(Unwrap(notifier.device), fan) IN
        /\ device' = Written(o)
        /\ notifier' = [notifier EXCEPT
                           !.pc = "done",
                           !.write = o.write,
                           !.found = IF IsSome(o.write)
                                     THEN Some(device.target_speed)
                                     ELSE None]
        /\ quiet' = Append(quiet, [ pre |-> device.target_speed,
                                    write |-> o.write,
                                    speed |-> o.pub.payload ])
    /\ UNCHANGED <<iot_client, fan, last, procs, completed>>

NextConc ==
    \E h \in Handlers :
        \/ ConcStart(h)
        \/ ConcControl(h)
        \/ ConcWrite(h)
        \/ ConcParameter(h)

\* the set-speed handlers, notify_state (one invocation after another) and
\* the poll, all interleaved
NextConcNotify ==
    \/ NextConc
    \/ ConcNotifyRead
    \/ ConcNotifySpeed
    \/ PollSpeed

SpecConcNotify == Init /\ [][NextConcNotify]_vars

SpecConc == Init /\ [][NextConc]_vars

-----------------------------------------------------------------------------
(* Vocabulary of the properties *)

\* the device as the last handler found it
Pre == Unwrap(last.pre)

\* the Primary (IoT) transport is usable for dev now
PrimaryUsable(dev) == dev.pollable_via_iot /\ iot_client

\* the Secondary transport's descriptor has a "fan" capability instance
HasFanCap(dev) ==
    /\ IsSome(dev.http_device_info)
    /\ \E i \in DOMAIN Unwrap(dev.http_device_info) :
           Unwrap(dev.http_device_info)[i].instance = "fan"

DirectDispatches == {i \in DOMAIN last.dispatches :
                        last.dispatches[i].via = "device_control"}
ModeDispatches == {i \in DOMAIN last.dispatches :
                      last.dispatches[i].via = "fan_set_parameter"}

\* the guess of notify_state: the advertised range minimum, or 0
Guess == IF IsSome(fan.speed_range_min) THEN Unwrap(fan.speed_range_min) ELSE 0

InRange(p) == p \in 0..100

-----------------------------------------------------------------------------
(* Properties *)

\* C1: from a device with no cached target speed, in a run of notify_state
\* invocations with no command or poll in between, the first invocation
\* writes the guess (range minimum, or 0) and publishes it; every later one
\* writes nothing and publishes that same value, read from the cache.
C1_LatchOnFirstRead ==
    (Len(quiet) >= 1 /\ quiet[1].pre = None) =>
        /\ quiet[1].write = Some(Guess)
        /\ quiet[1].speed = to_string(Guess)
        /\ \A i \in 2..Len(quiet) :
              /\ quiet[i].write = None
              /\ quiet[i].pre = Some(Guess)
              /\ quiet[i].speed = quiet[1].speed
        /\ device.target_speed = Some(Guess)

C1_Witness ==
    /\ Len(quiet) >= 2
    /\ quiet[1].pre = None
    /\ quiet[1].write # None
    /\ quiet[2].write = None

\* C2: when the direct percent dispatch of set-speed fails, the handler
\* returns the transport's error and the cached target speed (the whole
\* device record) is what it was before the handler ran.
C2_FailedDispatchKeepsCache ==
    (/\ last.op = "set_speed"
     /\ \E i \in DirectDispatches : ~last.dispatches[i].ack) =>
        /\ last.result = "ControlError"
        /\ device.target_speed = Pre.target_speed
        /\ device = Pre

C2_Witness ==
    /\ last.op = "set_speed"
    /\ \E i \in DirectDispatches : ~last.dispatches[i].ack
    /\ Pre.target_speed # None
    /\ Pre.target_speed # Some(as_u8(last.arg))

\* C3: with the Primary transport unusable and a "fan" capability on the
\* Secondary descriptor, a successful set-speed with a percent p (0..100)
\* makes exactly one direct percent dispatch carrying p, no mode-parameter
\* dispatch, and leaves p in the cached target speed.
C3_DirectPath ==
    (/\ last.op = "set_speed"
     /\ last.result = "Ok"
     /\ InRange(last.arg)
     /\ ~PrimaryUsable(Pre)
     /\ HasFanCap(Pre)) =>
        /\ Len(last.dispatches) = 1
        /\ last.dispatches[1].via = "device_control"
        /\ last.dispatches[1].instance = "fan"
        /\ last.dispatches[1].value = last.arg
        /\ ModeDispatches = {}
        /\ device = [Pre EXCEPT !.target_speed = Some(last.arg)]

C3_Witness ==
    /\ last.op = "set_speed"
    /\ last.result = "Ok"
    /\ last.arg = 50
    /\ ~PrimaryUsable(Pre)
    /\ HasFanCap(Pre)
    /\ Pre.work_mode = Some(TableAuto)
    /\ Pre.target_speed # Some(50)

\* the entries of dev's Mode Table with the given name
Named(dev, name) ==
    IF IsSome(dev.work_mode)
    THEN {i \in DOMAIN Unwrap(dev.work_mode) :
             Unwrap(dev.work_mode)[i].name = name}
    ELSE {}

\* C4: when the direct percent path is not taken (Primary usable, or no "fan"
\* capability on the Secondary descriptor), set-speed on a resolved device
\* makes no direct percent dispatch; with an "Auto" entry in the Mode Table
\* it makes exactly one mode-parameter dispatch carrying Auto's native value
\* and the percent converted to a native speed code; without one it fails
\* (ModeNotFound when the table is resolved) and dispatches nothing.
C4_AutoFallback ==
    (/\ last.op = "set_speed"
     /\ last.id = DeviceId
     /\ (PrimaryUsable(Pre) \/ ~HasFanCap(Pre))) =>
        /\ DirectDispatches = {}
        /\ IF Named(Pre, "Auto") # {}
           THEN LET auto == Unwrap(Pre.work_mode)[CHOOSE i \in Named(Pre, "Auto") : TRUE]
                    d == last.dispatches[1]
                IN /\ Len(last.dispatches) = 1
                   /\ d.via = "fan_set_parameter"
                   /\ d.mode = auto.value.n
                   /\ d.value = from_percent(as_u8(last.arg))
                   /\ d.value \in SpeedCodeMin..SpeedCodeMax
                   /\ last.result = IF d.ack THEN "Ok" ELSE "ControlError"
           ELSE /\ last.dispatches = <<>>
                /\ last.result # "Ok"
                /\ IsSome(Pre.work_mode) => last.result = "ModeNotFound"

\* a missing "fan" capability alone does not fail the command
C4_Witness ==
    /\ last.op = "set_speed"
    /\ last.id = DeviceId
    /\ ~PrimaryUsable(Pre)
    /\ ~HasFanCap(Pre)
    /\ Named(Pre, "Auto") # {}
    /\ last.result = "Ok"
    /\ ModeDispatches # {}

\* C5: after a set-speed that succeeded through the Value Converter path
\* with percent p, the cached target speed is p.
C5_ConverterPathCaches ==
    (/\ last.op = "set_speed"
     /\ last.result = "Ok"
     /\ InRange(last.arg)
     /\ ModeDispatches # {}) =>
        device.target_speed = Some(last.arg)

\* what notify_state consults for the mode: the cached native value when
\* there is one, else the raw blob's /value/workMode
Consulted(dev) ==
    IF IsSome(dev.fan_work_mode) THEN Some(JInt(Unwrap(dev.fan_work_mode)))
    ELSE IF IsSome(dev.work_mode_state)
    THEN pointer_value_workMode(Unwrap(dev.work_mode_state))
    ELSE None

\* the entries of dev's Mode Table whose native value is j
Valued(dev, j) ==
    IF IsSome(dev.work_mode)
    THEN {i \in DOMAIN Unwrap(dev.work_mode) :
             LooseEq(Unwrap(dev.work_mode)[i].value, j)}
    ELSE {}

Decodes(dev) ==
    IsSome(Consulted(dev)) /\ Valued(dev, Unwrap(Consulted(dev))) # {}

ModePubs == {i \in DOMAIN last.pubs :
                last.pubs[i].topic = fan.preset_mode_state_topic}

\* C6: for a device with no observed work-mode native value for which no
\* source resolves a mode, notify_state returns success after publishing
\* the on/off and speed states, and publishes nothing on the mode topic.
C6_MissingModeIsNoError ==
    (/\ last.op = "notify_state"
     /\ Pre.fan_work_mode = None
     /\ ~Decodes(Pre)) =>
        /\ last.result = "Ok"
        /\ Len(last.pubs) = 2
        /\ last.pubs[1].topic = fan.state_topic
        /\ last.pubs[2].topic = fan.percentage_state_topic
        /\ ModePubs = {}

\* C7: set-mode with a name that is no exact match of a Mode Table entry (or
\* with no Mode Table, or no such device) fails, dispatches nothing and
\* leaves the device record unchanged; with a matching name it makes exactly
\* one mode-parameter dispatch carrying the entry's native value and its
\* default sub-parameter value.
C7_SetModeValidates ==
    (last.op = "set_work_mode") =>
        IF last.id = DeviceId /\ Named(Pre, last.arg) # {}
        THEN LET m == Unwrap(Pre.work_mode)[CHOOSE i \in Named(Pre, last.arg) : TRUE]
                 d == last.dispatches[1]
             IN /\ Len(last.dispatches) = 1
                /\ d.via = "fan_set_parameter"
                /\ d.mode = m.value.n
                /\ d.value = m.default
                /\ last.result = IF d.ack THEN "Ok" ELSE "ControlError"
        ELSE /\ last.result # "Ok"
             /\ last.dispatches = <<>>
             /\ device = Pre

\* "Sleep" against a table that holds "sleep"
C7_Witness ==
    /\ last.op = "set_work_mode"
    /\ last.id = DeviceId
    /\ last.arg = "Sleep"
    /\ Named(Pre, "sleep") # {}
    /\ last.result = "ModeNotFound"
    /\ last.dispatches = <<>>

\* C9: every notify_state publishes the on/off state, once: "ON" exactly
\* when the device has a device state with on = true, "OFF" otherwise.
C9_OnOffAlwaysPublished ==
    (last.op = "notify_state") =>
        /\ {i \in DOMAIN last.pubs : last.pubs[i].topic = fan.state_topic} = {1}
        /\ last.pubs[1].payload \in {"ON", "OFF"}
        /\ last.pubs[1].payload = "ON" <=> Pre.device_state = Some([on |-> TRUE])

C9_Witness ==
    /\ last.op = "notify_state"
    /\ Pre.device_state = None
    /\ last.pubs[1].payload = "OFF"

\* C10: whatever notify_state publishes on the mode topic is the name of a
\* Mode Table entry whose native value equals the consulted value (the cached
\* work-mode native value when there is one, the raw blob's /value/workMode
\* only when there is none); when the consulted source does not decode to
\* an entry nothing is published on the mode topic.
C10_ModeNeverFabricated ==
    (last.op = "notify_state") =>
        /\ Cardinality(ModePubs) <= 1
        /\ \A i \in ModePubs :
              /\ IsSome(Consulted(Pre))
              /\ \E k \in Valued(Pre, Unwrap(Consulted(Pre))) :
                    Unwrap(Pre.work_mode)[k].name = last.pubs[i].payload
        /\ ~Decodes(Pre) => ModePubs = {}

\* the cached value wins over a raw blob that names another mode
C10_Witness ==
    /\ last.op = "notify_state"
    /\ Pre.fan_work_mode = Some(2)
    /\ IsSome(Pre.work_mode_state)
    /\ pointer_value_workMode(Unwrap(Pre.work_mode_state)) = Some(JFloat(1))
    /\ ModePubs # {}
    /\ \A i \in ModePubs : last.pubs[i].payload = "Auto"

\* C8: once two concurrent direct-path set-speed handlers have both returned
\* success, the cached target speed is the percent of the handler whose
\* transport dispatch completed last.
C8_LastDispatchWins ==
    (/\ Len(completed) = 2
     /\ \A h \in Handlers :
           /\ procs[h].pc = "done"
           /\ procs[h].result = "Ok"
           /\ InRange(procs[h].percent)) =>
        device.target_speed = Some(procs[completed[2]].percent)

\* C11: every set-speed on a resolved device takes the direct percent path
\* iff, at that invocation, the device is not pollable via IoT or the IoT
\* client is unavailable, and the descriptor has a "fan" capability: whatever
\* path an earlier invocation took and whatever optimistic flag Fan::new
\* stored in the configuration.
C11_AvailabilityPerCall ==
    (last.op = "set_speed" /\ last.id = DeviceId) =>
        /\ DirectDispatches # {}
              <=> ((~Pre.pollable_via_iot \/ ~iot_client) /\ HasFanCap(Pre))
        /\ DirectDispatches = {} \/ ModeDispatches = {}

\* the configuration says optimistic, the client has connected since, and
\* the invocation went through the Auto fallback
C11_Witness ==
    /\ last.op = "set_speed"
    /\ last.id = DeviceId
    /\ fan.optimistic
    /\ Pre.pollable_via_iot
    /\ iot_client
    /\ HasFanCap(Pre)
    /\ ModeDispatches # {}

Commands == {"set_work_mode", "set_speed", "set_oscillation"}

\* C12: a command handler makes at most one transport dispatch; when the
\* direct percent dispatch of set-speed fails the handler returns the error
\* and makes no Auto-mode dispatch.
C12_NoRetry ==
    (last.op \in Commands) =>
        /\ Len(last.dispatches) <= 1
        /\ (\E i \in DirectDispatches : ~last.dispatches[i].ack) =>
              /\ ModeDispatches = {}
              /\ last.result = "ControlError"

\* the direct dispatch failed on a device whose Auto fallback was available
C12_Witness ==
    /\ last.op = "set_speed"
    /\ Named(Pre, "Auto") # {}
    /\ \E i \in DirectDispatches : ~last.dispatches[i].ack
    /\ last.result = "ControlError"

\* C13: the configuration never changes after construction, and every
\* publish_config publishes exactly that document and leaves the Device
\* Runtime State as it was.
C13_PublishConfigIdempotent ==
    [][ /\ fan' = fan
        /\ last'.op = "publish_config" =>
              /\ last'.pubs = <<publish("config", fan)>>
              /\ last'.result = "Ok"
              /\ device' = device ]_vars

\* published after the IoT client connected: still the document of Fan::new
C13_Witness ==
    /\ last.op = "publish_config"
    /\ Pre.iot_api_supported
    /\ iot_client
    /\ last.pubs[1].payload.optimistic
    /\ IsSome(device.target_speed)

\* no set-speed command has been received
NoCommand ==
    /\ completed = <<>>
    /\ \A h \in Handlers : procs[h].pc = "idle"

HasOscillationCap(dev) ==
    /\ IsSome(dev.http_device_info)
    /\ \E i \in DOMAIN Unwrap(dev.http_device_info) :
           Unwrap(dev.http_device_info)[i].instance = "oscillationToggle"

\* C15: set-oscillation on a device without oscillation capability fails
\* and dispatches nothing; on a device that has it the handler makes
\* exactly one mode-parameter dispatch carrying the boolean payload.
C15_OscillationNeedsCapability ==
    (last.op = "set_oscillation" /\ last.id = DeviceId) =>
        IF HasOscillationCap(Pre)
        THEN /\ Len(last.dispatches) = 1
             /\ last.dispatches[1].via = "fan_set_parameter"
             /\ last.dispatches[1].mode = last.arg
        ELSE /\ last.result # "Ok"
             /\ last.dispatches = <<>>

\* C16: no handler changes any field of the device record but the cached
\* target speed, and that one is written only by a set-speed that succeeded
\* on the direct path and by the latch of notify_state.
C16_SingleFieldWrite ==
    (last.op # "none") =>
        /\ device = [Pre EXCEPT !.target_speed = device.target_speed]
        /\ (IsSome(last.write) \/ device.target_speed # Pre.target_speed) =>
              \/ /\ last.op = "set_speed"
                 /\ last.result = "Ok"
                 /\ DirectDispatches # {}
                 /\ ModeDispatches = {}
              \/ /\ last.op = "notify_state"
                 /\ Pre.target_speed = None

\* the latch wrote the speed next to an on flag and an observed work mode
C16_Witness ==
    /\ last.op = "notify_state"
    /\ IsSome(last.write)
    /\ IsSome(Pre.device_state)
    /\ IsSome(Pre.fan_work_mode)
    /\ device.target_speed # Pre.target_speed

\* C18: the cached target speed, when present, lies in 0..100 and, when a
\* set-speed wrote it, is the percent the hub sent.
C18_CacheInRange ==
    /\ IsSome(device.target_speed) => Unwrap(device.target_speed) \in 0..100
    /\ (last.op = "set_speed" /\ IsSome(last.write)) =>
          device.target_speed = Some(last.arg)

\* C17: whenever notify_state writes its guess into the registry, the
\* registry holds no target speed at the moment of that write.
C17_GuessNeverOverwrites ==
    IsSome(notifier.write) => notifier.found = Some(None)

====
